---- MODULE Spec2Model ----
(***************************************************************************)
(* Background poller (services/background_service.py) and API-key quota    *)
(* tracker (services/youtube_service.py) of the YouTube videos fetcher,    *)
(* as one asyncio event loop: every action is the code a coroutine runs    *)
(* between two suspension points.  Time is counted in hours.               *)
(***************************************************************************)
EXTENDS Integers, Sequences, FiniteSets, TLC

\* ---------------------------------------------------------------- bounds
MaxKeys == 3
MaxTasks == 2
MaxCount == 2
MaxTime == 24

\* ------------------------------------------------------ program constants
Cooldown == 24
BackoffCap == 60
DefaultInterval == 10
SuffixLen == 4

\* ------------------------------------------------------------ input sets
\* an API key is a string: the sequence of its characters
KeyNames == << <<"A", "I", "z", "a", "0", "1">>,
               <<"A", "I", "z", "a", "0", "2">>,
               <<"k", "3">>,
               <<"A", "I", "z", "a", "0", "4">>,
               <<"A", "I", "z", "a", "0", "5">> >>
KeyLists == {SubSeq(KeyNames, 1, n) : n \in 1..MaxKeys}
\* YOUTUBE_API_KEYS may name a key twice: get_api_keys keeps both
RepeatedKeyLists ==
    {<<KeyNames[1], KeyNames[1]>>, <<KeyNames[1], KeyNames[2], KeyNames[1]>>}
ClockSteps == {12, 24}
\* values of FETCH_INTERVAL, in seconds
Intervals == {DefaultInterval, 45, 60, 90}
Catalogue == {<<>>, <<"v1">>, <<"v2", "v1">>, <<"v1", "v2", "v3">>}

\* what the provider answers to the successive requests of one search: quota
\* rejections, then possibly an answer that ends the search
RECURSIVE Rejections(_)
Rejections(n) == IF n = 0 THEN <<>> ELSE <<"quota">> \o Rejections(n - 1)
Answers ==
    {Rejections(n) \o <<a>> : n \in 0..MaxKeys, a \in {"ok", "error"}}
        \cup {Rejections(MaxKeys + 1)}

NoKey == <<>>
NoTime == -1
NoTask == 0
ForceId == 0
TaskIds == 1..MaxTasks
WorkerIds == {ForceId} \cup TaskIds

VARIABLES
    api_keys,            \* YouTubeAPIClient.api_keys
    current_key_index,   \* YouTubeAPIClient.current_key_index
    quota_reset_time,    \* YouTubeAPIClient.quota_reset_time
    quota_exhausted,     \* YouTubeAPIClient.quota_exhausted
    fetch_interval,      \* settings.fetch_interval
    max_results_per_request,  \* settings.max_results_per_request
    unique_index,        \* whether create_indexes made the unique index on
                         \* video_id
    is_running,          \* BackgroundTaskService.is_running
    task,                \* BackgroundTaskService.task
    last_fetch_time,     \* BackgroundTaskService.last_fetch_time
    fetch_count,         \* BackgroundTaskService.fetch_count
    error_count,         \* BackgroundTaskService.error_count
    coro,                \* the coroutines that run a cycle: the loop tasks
                         \* and the caller of force_fetch
    stops,               \* the calls of stop_background_fetching that await
    collection,          \* the videos collection of the document store
    now,                 \* datetime.utcnow()
    search_log,          \* the search_videos call of the step just taken
    call_log,            \* the call of the poller (start, stop, force) that
                         \* made the step just taken, and whether it returned
    force_result,        \* the record force_fetch returned in the step just
                         \* taken
    cycle_log,           \* what the cycle that ended in the step just taken
                         \* logged: "Processed N videos: X new, Y updated"
    pool_log             \* the direct call of a method of the key pool made
                         \* in the step just taken

poolVars == <<api_keys, current_key_index, quota_reset_time, quota_exhausted>>
configVars == <<fetch_interval, max_results_per_request, unique_index>>
pollerVars == <<is_running, task, last_fetch_time, fetch_count, error_count>>
vars == <<api_keys, current_key_index, quota_reset_time, quota_exhausted,
          fetch_interval, max_results_per_request, unique_index, is_running,
          task, last_fetch_time, fetch_count, error_count, coro, stops,
          collection,
          now, search_log, call_log, force_result, cycle_log, pool_log>>

\* ------------------------------------------------------------------ pool
Min(a, b) == IF a <= b THEN a ELSE b

Pool == [quota_exhausted |-> quota_exhausted,
         quota_reset_time |-> quota_reset_time,
         current_key_index |-> current_key_index]

\* (mutant) the sweep compares with > and releases a key one step late
Released_late(p, t) ==
    {k \in p.quota_exhausted :
        k \in DOMAIN p.quota_reset_time /\ t > p.quota_reset_time[k]}

\* the keys the sweep of _get_next_available_key releases at time t
Released(p, t) ==
    {k \in p.quota_exhausted :
        k \in DOMAIN p.quota_reset_time /\ t >= p.quota_reset_time[k]}

\* (mutant) the sweep discards the key from quota_exhausted and keeps its
\* entry of quota_reset_time
Sweep_keeps_reset_time(p, t) ==
    [p EXCEPT !.quota_exhausted = p.quota_exhausted \ Released(p, t)]

Sweep(p, t) ==
    [p EXCEPT !.quota_exhausted = p.quota_exhausted \ Released(p, t),
              !.quota_reset_time =
                  [k \in DOMAIN p.quota_reset_time \ Released(p, t) |->
                      p.quota_reset_time[k]]]

\* (mutant) the scan does not look at quota_exhausted
Offsets_ignores_exhausted(p) == 0..(Len(api_keys) - 1)

\* the offsets i of range(len(api_keys)) whose key is not exhausted
Offsets(p) ==
    {i \in 0..(Len(api_keys) - 1) :
        api_keys[((p.current_key_index + i) % Len(api_keys)) + 1]
            \notin p.quota_exhausted}

FirstOffset(S) == CHOOSE i \in S : \A j \in S : i <= j

\* (mutant) the scan returns the key it finds and leaves current_key_index
\* where it was
get_next_available_key_keeps_index(p, t) ==
    LET q == Sweep(p, t) IN
    IF Offsets(q) = {}
    THEN [pool |-> q, key |-> NoKey]
    ELSE LET key_index ==
                 (q.current_key_index + FirstOffset(Offsets(q))) % Len(api_keys)
         IN [pool |-> q, key |-> api_keys[key_index + 1]]

get_next_available_key(p, t) ==
    LET q == Sweep(p, t) IN
    IF Offsets(q) = {}
    THEN [pool |-> q, key |-> NoKey]
    ELSE LET key_index ==
                 (q.current_key_index + FirstOffset(Offsets(q))) % Len(api_keys)
         IN [pool |-> [q EXCEPT !.current_key_index = key_index],
             key |-> api_keys[key_index + 1]]

\* (mutant) the key is added to quota_exhausted and gets no reset time
mark_without_reset_time(p, api_key, t) ==
    [p EXCEPT !.quota_exhausted = p.quota_exhausted \cup {api_key}]

\* (mutant) the key gets a reset time and is not added to quota_exhausted
mark_without_adding(p, api_key, t) ==
    [p EXCEPT !.quota_reset_time =
                  [k \in DOMAIN p.quota_reset_time \cup {api_key} |->
                      IF k = api_key THEN t + Cooldown
                      ELSE p.quota_reset_time[k]]]

\* (mutant) a key that is already exhausted keeps the reset time it has
mark_keeps_reset_time(p, api_key, t) ==
    IF api_key \in p.quota_exhausted /\ api_key \in DOMAIN p.quota_reset_time
    THEN p
    ELSE [p EXCEPT !.quota_exhausted = p.quota_exhausted \cup {api_key},
                   !.quota_reset_time =
                       [k \in DOMAIN p.quota_reset_time \cup {api_key} |->
                           IF k = api_key THEN t + Cooldown
                           ELSE p.quota_reset_time[k]]]

mark_key_exhausted(p, api_key, t) ==
    [p EXCEPT !.quota_exhausted = p.quota_exhausted \cup {api_key},
              !.quota_reset_time =
                  [k \in DOMAIN p.quota_reset_time \cup {api_key} |->
                      IF k = api_key THEN t + Cooldown
                      ELSE p.quota_reset_time[k]]]

\* (mutant) search_videos returns an empty list instead of raising when no
\* key is available
RECURSIVE search_videos_empty_without_key(_, _, _)
search_videos_empty_without_key(p, t, answers) ==
    LET r == get_next_available_key(p, t)
        c == [before |-> p, key |-> r.key, after |-> r.pool,
              answer |-> IF r.key = NoKey \/ answers = <<>> THEN "none"
                         ELSE Head(answers)]
    IN IF r.key = NoKey
       THEN [pool |-> r.pool, result |-> "ok", calls |-> <<c>>]
       ELSE IF answers = <<>>
       THEN [pool |-> r.pool, result |-> "unanswered", calls |-> <<c>>]
       ELSE IF Head(answers) = "quota"
       THEN LET rec == search_videos_empty_without_key(
                           mark_key_exhausted(r.pool, r.key, t), t,
                           Tail(answers))
            IN [rec EXCEPT !.calls = <<c>> \o rec.calls]
       ELSE [pool |-> r.pool, result |-> Head(answers), calls |-> <<c>>]

\* (mutant) search_videos takes every error of the provider for a quota
\* rejection
RECURSIVE search_videos_marks_on_error(_, _, _)
search_videos_marks_on_error(p, t, answers) ==
    LET r == get_next_available_key(p, t)
        c == [before |-> p, key |-> r.key, after |-> r.pool,
              answer |-> IF r.key = NoKey \/ answers = <<>> THEN "none"
                         ELSE Head(answers)]
    IN IF r.key = NoKey
       THEN [pool |-> r.pool, result |-> "nokey", calls |-> <<c>>]
       ELSE IF answers = <<>>
       THEN [pool |-> r.pool, result |-> "unanswered", calls |-> <<c>>]
       ELSE IF Head(answers) \in {"quota", "error"}
       THEN LET rec == search_videos_marks_on_error(
                           mark_key_exhausted(r.pool, r.key, t), t,
                           Tail(answers))
            IN [rec EXCEPT !.calls = <<c>> \o rec.calls]
       ELSE [pool |-> r.pool, result |-> Head(answers), calls |-> <<c>>]

\* One call of search_videos at time t; answers is what the provider answers
\* to its successive requests.  The call and its recursive retries run
\* without a suspension point.  calls lists, per level of the recursion, the
\* pool before _get_next_available_key, the key it returned, the pool after
\* it and the provider's answer.  A search that needs more answers than are
\* given is "unanswered".
RECURSIVE search_videos(_, _, _)
search_videos(p, t, answers) ==
    LET r == get_next_available_key(p, t)
        c == [before |-> p, key |-> r.key, after |-> r.pool,
              answer |-> IF r.key = NoKey \/ answers = <<>> THEN "none"
                         ELSE Head(answers)]
    IN IF r.key = NoKey
       THEN [pool |-> r.pool, result |-> "nokey", calls |-> <<c>>]
       ELSE IF answers = <<>>
       THEN [pool |-> r.pool, result |-> "unanswered", calls |-> <<c>>]
       ELSE IF Head(answers) = "quota"
       THEN LET rec == search_videos(mark_key_exhausted(r.pool, r.key, t), t,
                                     Tail(answers))
            IN [rec EXCEPT !.calls = <<c>> \o rec.calls]
       ELSE [pool |-> r.pool, result |-> Head(answers), calls |-> <<c>>]

\* ---------------------------------------------------------- coroutines
\* stored_count and updated_count are the locals of _fetch_and_store_videos;
\* errors counts the records it skipped with "Error storing video" and base
\* is the collection as it was when the search returned
NoCoro == [pc |-> "none", cancel |-> FALSE, videos |-> <<>>, pos |-> 0,
           op |-> "", stamp |-> NoTime, sleep |-> 0, exit |-> "",
           started |-> NoTime, stored_count |-> 0, updated_count |-> 0,
           errors |-> 0, base |-> <<>>]

NoSearch == [by |-> ForceId, calls |-> <<>>, result |-> "none"]
NoCall == [op |-> "", returned |-> FALSE, before |-> {}]
NoResult == [success |-> FALSE, message |-> "", timestamp |-> NoTime]
NoCycle == [by |-> ForceId, videos |-> <<>>, stored_count |-> 0,
            updated_count |-> 0, errors |-> 0, base |-> <<>>]
NoPoolCall == [op |-> "", key |-> NoKey, before |-> <<>>, after |-> <<>>]

Spawned == {t \in TaskIds : coro[t].pc # "none"}
Alive == {t \in TaskIds : coro[t].pc \notin {"none", "done"}}
InCycle == {t \in TaskIds : coro[t].pc \in {"lookup", "write"}}

\* the state after the construction of the two services
Constructed ==
    /\ current_key_index = 0
    /\ quota_reset_time = [k \in {} |-> NoTime]
    /\ quota_exhausted = {}
    /\ is_running = FALSE
    /\ task = NoTask
    /\ last_fetch_time = NoTime
    /\ fetch_count = 0
    /\ error_count = 0
    /\ coro = [w \in WorkerIds |->
                  IF w = ForceId THEN [NoCoro EXCEPT !.pc = "idle"] ELSE NoCoro]
    /\ stops = {}
    /\ collection = <<>>
    /\ now = 0
    /\ search_log = NoSearch
    /\ call_log = NoCall
    /\ force_result = NoResult
    /\ cycle_log = NoCycle
    /\ pool_log = NoPoolCall

\* one API key, the default interval, one result per request
Init ==
    /\ api_keys = SubSeq(KeyNames, 1, 1)
    /\ fetch_interval = DefaultInterval
    /\ max_results_per_request = 1
    /\ unique_index = TRUE
    /\ Constructed

\* ------------------------------------------------- start and stop (poller)
\* (mutant) start_background_fetching without its is_running guard
start_unguarded ==
    /\ TaskIds \ Spawned # {}
    /\ LET t == CHOOSE t \in TaskIds \ Spawned :
                    \A u \in TaskIds \ Spawned : t <= u
       IN /\ is_running' = TRUE
          /\ task' = t
          /\ coro' = [coro EXCEPT ![t] = [NoCoro EXCEPT !.pc = "new"]]
    /\ call_log' = [op |-> "start", returned |-> TRUE, before |-> Spawned]
    /\ search_log' = NoSearch
    /\ pool_log' = NoPoolCall
    /\ force_result' = NoResult
    /\ cycle_log' = NoCycle
    /\ UNCHANGED <<poolVars, configVars, last_fetch_time, fetch_count,
                   error_count, stops, collection, now>>

start_background_fetching ==
    /\ IF is_running
       THEN UNCHANGED <<pollerVars, coro>>
       ELSE /\ TaskIds \ Spawned # {}
            /\ LET t == CHOOSE t \in TaskIds \ Spawned :
                            \A u \in TaskIds \ Spawned : t <= u
               IN /\ is_running' = TRUE
                  /\ task' = t
                  /\ coro' = [coro EXCEPT ![t] = [NoCoro EXCEPT !.pc = "new"]]
            /\ UNCHANGED <<last_fetch_time, fetch_count, error_count>>
    /\ call_log' = [op |-> "start", returned |-> TRUE, before |-> Spawned]
    /\ search_log' = NoSearch
    /\ pool_log' = NoPoolCall
    /\ force_result' = NoResult
    /\ cycle_log' = NoCycle
    /\ UNCHANGED <<poolVars, configVars, stops, collection, now>>

\* (mutant) Task.cancel() is not called
Cancel_ignored(c) == c

\* Task.cancel(): nothing happens to a task that is done
Cancel(c) == IF c.pc = "done" THEN c ELSE [c EXCEPT !.cancel = TRUE]

\* a call of stop_background_fetching: before is the set of loop tasks that
\* were spawned when the call was made
Returned(before) == [op |-> "stop", returned |-> TRUE, before |-> before]
Awaiting(before) == [op |-> "stop", returned |-> FALSE, before |-> before]

\* (mutant) stop_background_fetching only clears is_running: it neither
\* cancels the task nor waits for it
stop_without_cancel ==
    /\ is_running' = FALSE
    /\ call_log' = Returned(Spawned)
    /\ search_log' = NoSearch
    /\ pool_log' = NoPoolCall
    /\ force_result' = NoResult
    /\ cycle_log' = NoCycle
    /\ UNCHANGED <<poolVars, configVars, task, last_fetch_time, fetch_count,
                   error_count, coro, stops, collection, now>>

\* stop_background_fetching up to its await, or to its return when it does
\* not have to wait
stop_background_fetching ==
    /\ IF ~is_running
       THEN /\ call_log' = Returned(Spawned)
            /\ UNCHANGED <<pollerVars, coro, stops>>
       ELSE /\ is_running' = FALSE
            /\ IF task = NoTask
               THEN /\ call_log' = Returned(Spawned)
                    /\ UNCHANGED <<coro, stops>>
               ELSE /\ coro' = [coro EXCEPT ![task] = Cancel(coro[task])]
                    /\ IF coro[task].pc = "done"
                       THEN /\ call_log' = Returned(Spawned)
                            /\ stops' = stops
                       ELSE /\ call_log' = Awaiting(Spawned)
                            /\ stops' = stops \cup
                                  {[waits |-> task, before |-> Spawned]}
            /\ UNCHANGED <<task, last_fetch_time, fetch_count, error_count>>
    /\ search_log' = NoSearch
    /\ pool_log' = NoPoolCall
    /\ force_result' = NoResult
    /\ cycle_log' = NoCycle
    /\ UNCHANGED <<poolVars, configVars, collection, now>>

\* the rest of stop_background_fetching: the awaited task is done, and a
\* CancelledError it ended with is swallowed
stop_resume(s) ==
    /\ s \in stops
    /\ coro[s.waits].pc = "done"
    /\ stops' = stops \ {s}
    /\ call_log' = Returned(s.before)
    /\ search_log' = NoSearch
    /\ pool_log' = NoPoolCall
    /\ force_result' = NoResult
    /\ cycle_log' = NoCycle
    /\ UNCHANGED <<poolVars, configVars, pollerVars, coro, collection, now>>

\* ------------------------------------------------- fetch-and-store cycle
SetPool(p) ==
    /\ quota_exhausted' = p.quota_exhausted
    /\ quota_reset_time' = p.quota_reset_time
    /\ current_key_index' = p.current_key_index
    /\ api_keys' = api_keys

Cleared(c) ==
    [c EXCEPT !.videos = <<>>, !.pos = 0, !.op = "", !.stamp = NoTime,
              !.stored_count = 0, !.updated_count = 0, !.errors = 0,
              !.base = <<>>]

\* (mutant) a failed cycle ends the loop task
Settle_failure_ends_task(w, c, outcome) ==
    IF outcome = "pending" THEN c
    ELSE IF w = ForceId
    THEN [Cleared(c) EXCEPT !.pc = "idle", !.started = NoTime]
    ELSE IF outcome = "success"
    THEN [Cleared(c) EXCEPT !.pc = "sleep", !.sleep = fetch_interval]
    ELSE [Cleared(c) EXCEPT !.pc = "done", !.exit = "raised"]

\* (mutant) the sleep after a failed cycle is not capped
Settle_backoff_uncapped(w, c, outcome) ==
    IF outcome = "pending" THEN c
    ELSE IF w = ForceId
    THEN [Cleared(c) EXCEPT !.pc = "idle", !.started = NoTime]
    ELSE IF outcome = "success"
    THEN [Cleared(c) EXCEPT !.pc = "sleep", !.sleep = fetch_interval]
    ELSE [Cleared(c) EXCEPT !.pc = "backoff", !.sleep = fetch_interval * 2]

\* Where worker w is once its cycle has the given outcome: a cycle that is
\* still "pending" waits for storage; the loop counts a finished cycle and
\* sleeps; force_fetch returns.
Settle(w, c, outcome) ==
    IF outcome = "pending" THEN c
    ELSE IF w = ForceId
    THEN [Cleared(c) EXCEPT !.pc = "idle", !.started = NoTime]
    ELSE IF outcome = "success"
    THEN [Cleared(c) EXCEPT !.pc = "sleep", !.sleep = fetch_interval]
    ELSE [Cleared(c) EXCEPT !.pc = "backoff",
                            !.sleep = Min(fetch_interval * 2, BackoffCap)]

ForceSuccess(c) ==
    [success |-> TRUE, message |-> "Manual fetch completed successfully",
     duration |-> now - c.started, timestamp |-> now]

\* (mutant) force_fetch reports a cycle that raised as a success
ForceFailure_reports_success(err) ==
    [success |-> TRUE, message |-> "Manual fetch completed successfully",
     timestamp |-> now]

ForceFailure(err) ==
    [success |-> FALSE, message |-> "Manual fetch failed: " \o err,
     timestamp |-> now]

\* what _fetch_videos_loop makes of the counters when the cycle of worker w
\* has the given outcome (force_fetch leaves them alone)
CountedFetch(w, outcome) ==
    IF w # ForceId /\ outcome = "success" THEN fetch_count + 1
    ELSE fetch_count

\* (mutant) the loop counts the cycle and does not record its time
StaleFetchTime(w, outcome) == last_fetch_time

\* (mutant) a cycle of force_fetch sets last_fetch_time as one of the loop
\* does
StampedFetchTime_stamps_force(w, outcome) ==
    IF outcome = "success" THEN now ELSE last_fetch_time

StampedFetchTime(w, outcome) ==
    IF w # ForceId /\ outcome = "success" THEN now ELSE last_fetch_time

CountedError(w, outcome) ==
    IF w # ForceId /\ outcome = "failure" THEN error_count + 1
    ELSE error_count

\* the end of a step of _fetch_and_store_videos in worker w, and of what its
\* caller (_fetch_videos_loop or force_fetch) does when the cycle is over
Finish(w, c, outcome, err) ==
    /\ coro' = [coro EXCEPT ![w] = Settle(w, c, outcome)]
    /\ fetch_count' = CountedFetch(w, outcome)
    /\ last_fetch_time' = StampedFetchTime(w, outcome)
    /\ error_count' = CountedError(w, outcome)
    /\ force_result' =
          IF w = ForceId /\ outcome = "success" THEN ForceSuccess(c)
          ELSE IF w = ForceId /\ outcome = "failure" THEN ForceFailure(err)
          ELSE NoResult
    /\ call_log' =
          IF w = ForceId
          THEN [op |-> "force", returned |-> outcome # "pending",
                before |-> Spawned]
          ELSE NoCall
    /\ cycle_log' =
          IF outcome = "success" /\ c.videos # <<>>
          THEN [by |-> w, videos |-> c.videos,
                stored_count |-> c.stored_count,
                updated_count |-> c.updated_count,
                errors |-> c.errors, base |-> c.base]
          ELSE NoCycle
    /\ UNCHANGED <<is_running, task>>

ErrorText(result) ==
    IF result = "nokey" THEN "All API keys have exhausted their quota"
    ELSE "HttpError"

\* what the provider can return to a search for maxResults videos
Batches == {b \in Catalogue : Len(b) <= max_results_per_request}

\* _fetch_and_store_videos from its start to its first suspension point:
\* search_videos, then the first storage lookup is issued
fetch_and_store_videos(w, c) ==
    \E answers \in Answers, videos \in Batches :
        LET s == search_videos(Pool, now, answers) IN
        /\ s.result # "unanswered"
        /\ SetPool(s.pool)
        /\ search_log' = [by |-> w, calls |-> s.calls, result |-> s.result]
        /\ pool_log' = NoPoolCall
        /\ IF s.result # "ok"
           THEN Finish(w, c, "failure", ErrorText(s.result))
           ELSE IF videos = <<>>
           THEN Finish(w, c, "success", "")
           ELSE Finish(w, [c EXCEPT !.pc = "lookup", !.videos = videos,
                                    !.pos = 1, !.base = collection],
                       "pending", "")

\* the record is done with (stored, or skipped after a storage error)
NextRecord(w, c) ==
    IF c.pos < Len(c.videos)
    THEN Finish(w, [c EXCEPT !.pc = "lookup", !.pos = c.pos + 1, !.op = "",
                             !.stamp = NoTime], "pending", "")
    ELSE Finish(w, c, "success", "")

Stored(video_id) ==
    {i \in 1..Len(collection) : collection[i].video_id = video_id}

\* get_video_by_id returns (ok) or raises; then update_video or create_video
\* stamps the record and issues its write
lookup_done(w) ==
    /\ coro[w].pc = "lookup"
    /\ ~coro[w].cancel
    /\ \E ok \in BOOLEAN :
          LET c == coro[w]
              video_id == c.videos[c.pos]
          IN IF ok
             THEN Finish(w, [c EXCEPT !.pc = "write",
                                      !.op = IF Stored(video_id) # {}
                                             THEN "update" ELSE "create",
                                      !.stamp = now], "pending", "")
             ELSE NextRecord(w, [c EXCEPT !.errors = c.errors + 1])
    /\ search_log' = NoSearch
    /\ pool_log' = NoPoolCall
    /\ UNCHANGED <<poolVars, configVars, stops, collection, now>>

\* (mutant) the update is an insert of another document
Updated_appends(video_id, stamp) ==
    Append(collection, [video_id |-> video_id, created_at |-> stamp,
                        updated_at |-> stamp])

\* (mutant) the update also sets created_at
Updated_restamps_created_at(video_id, stamp) ==
    IF Stored(video_id) = {} THEN collection
    ELSE [collection EXCEPT
             ![FirstOffset(Stored(video_id))].updated_at = stamp,
             ![FirstOffset(Stored(video_id))].created_at = stamp]

\* find_one_and_update: $set on the first document with that video_id
Updated(video_id, stamp) ==
    IF Stored(video_id) = {} THEN collection
    ELSE [collection EXCEPT ![FirstOffset(Stored(video_id))].updated_at = stamp]

\* insert_one: the unique index on video_id, where create_indexes made it,
\* refuses a second document with the video_id
CanInsert(video_id) == ~unique_index \/ Stored(video_id) = {}

Inserted(video_id, stamp) ==
    Append(collection, [video_id |-> video_id, created_at |-> stamp,
                        updated_at |-> stamp])

Written(c) ==
    IF c.op = "update" THEN Updated(c.videos[c.pos], c.stamp)
    ELSE IF CanInsert(c.videos[c.pos]) THEN Inserted(c.videos[c.pos], c.stamp)
    ELSE collection

\* the write of update_video returns when storage answers (ok); the write
\* of create_video also needs the unique index to let the document in
Succeeds(c, ok) ==
    ok /\ (c.op = "update" \/ CanInsert(c.videos[c.pos]))

\* (mutant) a record that fails ends the batch: the records after it are
\* left out
Counted_failure_raises(c, ok) ==
    IF Succeeds(c, ok) /\ c.op = "update"
    THEN [c EXCEPT !.updated_count = c.updated_count + 1]
    ELSE IF Succeeds(c, ok)
    THEN [c EXCEPT !.stored_count = c.stored_count + 1]
    ELSE [c EXCEPT !.errors = c.errors + 1, !.pos = Len(c.videos)]

\* updated_count += 1, stored_count += 1, or the except branch of the record
Counted(c, ok) ==
    IF Succeeds(c, ok) /\ c.op = "update"
    THEN [c EXCEPT !.updated_count = c.updated_count + 1]
    ELSE IF Succeeds(c, ok)
    THEN [c EXCEPT !.stored_count = c.stored_count + 1]
    ELSE [c EXCEPT !.errors = c.errors + 1]

\* the write returns or raises (a storage error, or a duplicate key)
write_done(w) ==
    /\ coro[w].pc = "write"
    /\ ~coro[w].cancel
    /\ \E ok \in BOOLEAN :
          LET c == coro[w] IN
          /\ collection' = IF Succeeds(c, ok) THEN Written(c) ELSE collection
          /\ NextRecord(w, Counted(c, ok))
    /\ search_log' = NoSearch
    /\ pool_log' = NoPoolCall
    /\ UNCHANGED <<poolVars, configVars, stops, now>>

\* --------------------------------------------------------- the tick loop
Done(c, exit) ==
    [Cleared(c) EXCEPT !.pc = "done", !.cancel = FALSE, !.sleep = 0,
                       !.exit = exit]

\* `while self.is_running:` and, when it holds, the next cycle
LoopTop(t) ==
    IF ~is_running
    THEN /\ coro' = [coro EXCEPT ![t] = Done(coro[t], "returned")]
         /\ search_log' = NoSearch
         /\ pool_log' = NoPoolCall
         /\ force_result' = NoResult
         /\ cycle_log' = NoCycle
         /\ call_log' = NoCall
         /\ UNCHANGED <<poolVars, pollerVars>>
    ELSE /\ fetch_count + error_count < MaxCount
         /\ fetch_and_store_videos(t, coro[t])

\* the first step of the task that create_task made
loop_run(t) ==
    /\ coro[t].pc = "new"
    /\ ~coro[t].cancel
    /\ LoopTop(t)
    /\ UNCHANGED <<configVars, stops, collection, now>>

\* asyncio.sleep returns, after a cycle or after a failed one
sleep_done(t) ==
    /\ coro[t].pc \in {"sleep", "backoff"}
    /\ ~coro[t].cancel
    /\ LoopTop(t)
    /\ UNCHANGED <<configVars, stops, collection, now>>

\* (mutant) the except clause of the record catches CancelledError too: the
\* record is skipped and the cycle goes on
cancelled_swallowed(t) ==
    /\ coro[t].cancel
    /\ coro[t].pc \notin {"none", "done"}
    /\ LET c == coro[t] IN
       IF c.pc \in {"lookup", "write"}
       THEN /\ \E applied \in BOOLEAN :
                  collection' = IF applied /\ c.pc = "write" THEN Written(c)
                                ELSE collection
            /\ NextRecord(t, [c EXCEPT !.cancel = FALSE,
                                       !.errors = c.errors + 1])
       ELSE /\ coro' = [coro EXCEPT ![t] =
                           Done(c, IF c.pc = "sleep" THEN "returned"
                                   ELSE "cancelled")]
            /\ collection' = collection
            /\ call_log' = NoCall
            /\ force_result' = NoResult
            /\ cycle_log' = NoCycle
            /\ UNCHANGED pollerVars
    /\ search_log' = NoSearch
    /\ pool_log' = NoPoolCall
    /\ UNCHANGED <<poolVars, configVars, stops, now>>

\* The task resumes with CancelledError at the point it is suspended at.  In
\* the try block (a storage call, the interval sleep) the loop catches it and
\* breaks; before the first step and in the backoff sleep of the except
\* block it ends the task.  The write that was in flight may have happened.
cancelled(t) ==
    /\ coro[t].cancel
    /\ coro[t].pc \notin {"none", "done"}
    /\ LET c == coro[t]
           caught == c.pc \in {"lookup", "write", "sleep"}
       IN /\ coro' = [coro EXCEPT ![t] =
                         Done(c, IF caught THEN "returned" ELSE "cancelled")]
          /\ \E applied \in BOOLEAN :
                collection' = IF applied /\ c.pc = "write" THEN Written(c)
                              ELSE collection
    /\ search_log' = NoSearch
    /\ pool_log' = NoPoolCall
    /\ call_log' = NoCall
    /\ force_result' = NoResult
    /\ cycle_log' = NoCycle
    /\ UNCHANGED <<poolVars, configVars, pollerVars, stops, now>>

\* force_fetch up to the first suspension point of its cycle
force_fetch ==
    /\ coro[ForceId].pc = "idle"
    /\ fetch_and_store_videos(ForceId, [coro[ForceId] EXCEPT !.started = now])
    /\ UNCHANGED <<configVars, stops, collection, now>>

\* the clock
tick(d) ==
    /\ now + d <= MaxTime
    /\ now' = now + d
    /\ search_log' = NoSearch
    /\ pool_log' = NoPoolCall
    /\ call_log' = NoCall
    /\ force_result' = NoResult
    /\ cycle_log' = NoCycle
    /\ UNCHANGED <<poolVars, configVars, pollerVars, coro, stops, collection>>

get_status ==
    [is_running |-> is_running,
     last_fetch_time |-> last_fetch_time,
     fetch_count |-> fetch_count,
     error_count |-> error_count,
     fetch_interval |-> fetch_interval,
     max_results_per_request |-> max_results_per_request]

\* key[-4:]
Suffix(key) ==
    IF Len(key) <= SuffixLen THEN key
    ELSE SubSeq(key, Len(key) - SuffixLen + 1, Len(key))

get_quota_status(p) ==
    [total_keys |-> Len(api_keys),
     available_keys |-> Len(api_keys) - Cardinality(p.quota_exhausted),
     exhausted_keys |-> Cardinality(p.quota_exhausted),
     current_key_index |-> p.current_key_index,
     keys_status |->
         [i \in 1..Len(api_keys) |->
             [index |-> i - 1,
              key_suffix |-> Suffix(api_keys[i]),
              is_exhausted |-> api_keys[i] \in p.quota_exhausted,
              reset_time |->
                  IF api_keys[i] \in DOMAIN p.quota_reset_time
                  THEN p.quota_reset_time[api_keys[i]] ELSE NoTime]]]

\* ------------------------------------------- the key pool, called directly
\* a call of _get_next_available_key
next_available_key ==
    /\ LET r == get_next_available_key(Pool, now) IN
          /\ SetPool(r.pool)
          /\ pool_log' = [op |-> "next", key |-> r.key, before |-> Pool,
                          after |-> r.pool]
    /\ search_log' = NoSearch
    /\ call_log' = NoCall
    /\ force_result' = NoResult
    /\ cycle_log' = NoCycle
    /\ UNCHANGED <<configVars, pollerVars, coro, stops, collection, now>>

\* a call of _mark_key_exhausted with one of the keys
mark_exhausted(api_key) ==
    /\ LET q == mark_key_exhausted(Pool, api_key, now) IN
          /\ SetPool(q)
          /\ pool_log' = [op |-> "mark", key |-> api_key, before |-> Pool,
                          after |-> q]
    /\ search_log' = NoSearch
    /\ call_log' = NoCall
    /\ force_result' = NoResult
    /\ cycle_log' = NoCycle
    /\ UNCHANGED <<configVars, pollerVars, coro, stops, collection, now>>

\* ------------------------------------------------------- specifications
\* The poller's life cycle: every operation of the poller, with one API key,
\* the default interval and one result per request.
Next ==
    \/ start_background_fetching
    \/ stop_background_fetching
    \/ \E s \in stops : stop_resume(s)
    \/ \E t \in TaskIds : loop_run(t)
    \/ \E t \in TaskIds : sleep_done(t)
    \/ \E t \in TaskIds : cancelled(t)
    \/ \E w \in WorkerIds : lookup_done(w)
    \/ \E w \in WorkerIds : write_done(w)
    \/ force_fetch

Spec == Init /\ [][Next]_vars

\* The key pool: every list of API keys, a poller that is started and left
\* running, force_fetch calls and the clock.  maxResults is 0, so that a
\* search returns no video and a cycle is over when its search is.
InitPool ==
    /\ api_keys \in KeyLists
    /\ fetch_interval = DefaultInterval
    /\ max_results_per_request = 0
    /\ unique_index = TRUE
    /\ Constructed

NextPool ==
    \/ start_background_fetching
    \/ \E t \in TaskIds : loop_run(t)
    \/ \E t \in TaskIds : sleep_done(t)
    \/ force_fetch
    \/ \E d \in ClockSteps : tick(d)

SpecPool == InitPool /\ [][NextPool]_vars

\* The key pool with a key list that may name a key twice.
InitStatus ==
    /\ api_keys \in KeyLists \cup RepeatedKeyLists
    /\ fetch_interval = DefaultInterval
    /\ max_results_per_request = 0
    /\ unique_index = TRUE
    /\ Constructed

SpecStatus == InitStatus /\ [][NextPool]_vars

\* The methods of the key pool called one after another, at any time.
NextUnit ==
    \/ next_available_key
    \/ \E i \in 1..Len(api_keys) : mark_exhausted(api_keys[i])
    \/ \E d \in ClockSteps : tick(d)

SpecUnit == InitPool /\ [][NextUnit]_vars

\* The store: force_fetch calls one after another, two results per request,
\* and the clock.
InitStore ==
    /\ api_keys = SubSeq(KeyNames, 1, 1)
    /\ fetch_interval = DefaultInterval
    /\ max_results_per_request = 2
    /\ unique_index = TRUE
    /\ Constructed

NextStore ==
    \/ force_fetch
    \/ lookup_done(ForceId)
    \/ write_done(ForceId)
    \/ \E d \in ClockSteps : tick(d)

SpecStore == InitStore /\ [][NextStore]_vars

\* Batches: the loop and force_fetch calls, two results per request.
NextBatch ==
    \/ start_background_fetching
    \/ \E t \in TaskIds : loop_run(t)
    \/ \E t \in TaskIds : sleep_done(t)
    \/ \E w \in WorkerIds : lookup_done(w)
    \/ \E w \in WorkerIds : write_done(w)
    \/ force_fetch

SpecBatch == InitStore /\ [][NextBatch]_vars

\* The race for a video: the loop and force_fetch calls with one result per
\* request, whether create_indexes made the unique index or logged that it
\* could not.
InitRace ==
    /\ api_keys = SubSeq(KeyNames, 1, 1)
    /\ fetch_interval = DefaultInterval
    /\ max_results_per_request = 1
    /\ unique_index \in BOOLEAN
    /\ Constructed

SpecRace == InitRace /\ [][NextBatch]_vars

\* The sleeps of the loop, for every interval.
InitSleep ==
    /\ api_keys = SubSeq(KeyNames, 1, 1)
    /\ fetch_interval \in Intervals
    /\ max_results_per_request = 0
    /\ unique_index = TRUE
    /\ Constructed

SpecSleep == InitSleep /\ [][NextPool]_vars

\* Cancellation: the loop with two results per request, started and stopped.
NextCancel ==
    \/ start_background_fetching
    \/ stop_background_fetching
    \/ \E s \in stops : stop_resume(s)
    \/ \E t \in TaskIds : loop_run(t)
    \/ \E t \in TaskIds : sleep_done(t)
    \/ \E t \in TaskIds : cancelled(t)
    \/ \E t \in TaskIds : lookup_done(t)
    \/ \E t \in TaskIds : write_done(t)

SpecCancel == InitStore /\ [][NextCancel]_vars

\* The life cycle under the scheduling of the event loop: a task that was
\* cancelled is resumed, and so is a call of stop whose task is done.
Fairness ==
    /\ \A t \in TaskIds : WF_vars(cancelled(t))
    /\ WF_vars(\E s \in stops : stop_resume(s))

SpecLive == Init /\ [][Next]_vars /\ Fairness

\* ------------------------------------------------ the poller's life cycle
Stopped == ~is_running /\ stops = {}

\* C1: once stop_background_fetching has returned and no start has followed
\* (the poller is not running and no stop call is still waiting), no step
\* changes fetch_count, error_count or last_fetch_time.
C1_NoTickAfterStop ==
    [][Stopped =>
          /\ fetch_count' = fetch_count
          /\ error_count' = error_count
          /\ last_fetch_time' = last_fetch_time]_vars

\* a stop call has just returned, after a loop that counted a cycle
C1_Witness ==
    /\ call_log.op = "stop"
    /\ call_log.returned
    /\ call_log.before # {}
    /\ Stopped
    /\ fetch_count + error_count > 0

\* C2: whenever a call of stop_background_fetching returns, every loop task
\* spawned before the call was made has terminated.
C2_StopReturnsAfterTermination ==
    (call_log.op = "stop" /\ call_log.returned) =>
        \A t \in call_log.before : coro[t].pc = "done"

\* C3: is_running, as get_status reports it, is true exactly when a loop task
\* exists that has not terminated.
C3_RunningIffTaskAlive ==
    get_status.is_running <=> (Alive # {})

\* C4: a call of start_background_fetching made while is_running is true
\* spawns nothing and leaves is_running, task, the counters and every loop
\* task as they are.
C4_StartWhileRunningIsNoOp ==
    [][(is_running /\ call_log'.op = "start") =>
          /\ UNCHANGED <<is_running, task, last_fetch_time, fetch_count,
                         error_count>>
          /\ coro' = coro
          /\ Spawned' = Spawned
          /\ Alive' = Alive]_vars

\* start was called twice in a row and one loop task is alive
C4_Witness ==
    /\ call_log.op = "start"
    /\ call_log.before # {}
    /\ is_running
    /\ Cardinality(Alive) = 1
    /\ Cardinality(Spawned) = 1

\* the step is the start of a cycle of loop task t whose search raises
LoopCycleFails(t) ==
    /\ search_log'.by = t
    /\ search_log'.calls # <<>>
    /\ search_log'.result \in {"nokey", "error"}

\* C5: a cycle of the loop that fails adds one to error_count, leaves
\* fetch_count, last_fetch_time and is_running alone and puts the loop into
\* its backoff sleep; the backoff sleep ends in another cycle unless the task
\* was cancelled or is_running is false; and a loop task ends only when it
\* was cancelled or found is_running false.
C5_FailureKeepsLooping ==
    [][\A t \in TaskIds :
          /\ LoopCycleFails(t) =>
                /\ error_count' = error_count + 1
                /\ fetch_count' = fetch_count
                /\ last_fetch_time' = last_fetch_time
                /\ is_running /\ is_running'
                /\ coro'[t].pc = "backoff"
          /\ (coro[t].pc = "backoff" /\ coro'[t].pc # "backoff") =>
                \/ coro[t].cancel
                \/ ~is_running
                \/ search_log'.by = t /\ search_log'.calls # <<>>
          /\ (coro[t].pc # "done" /\ coro'[t].pc = "done") =>
                coro[t].cancel \/ ~is_running]_vars

\* a cycle of the loop has just failed, after an earlier one had
C5_Witness ==
    /\ search_log.by \in TaskIds
    /\ search_log.calls # <<>>
    /\ search_log.result \in {"nokey", "error"}
    /\ error_count = 2
    /\ coro[search_log.by].pc = "backoff"

\* the step ends a cycle of loop task t that did not raise: its last record
\* is done with, or its search returned no record
LoopCycleCompletes(t) ==
    /\ coro'[t].pc = "sleep"
    /\ \/ coro[t].pc \in {"lookup", "write"}
       \/ search_log'.by = t /\ search_log'.result = "ok"

EmptyCycle(t) ==
    /\ search_log'.by = t
    /\ search_log'.result = "ok"
    /\ coro'[t].pc = "sleep"

\* C6: every cycle of the loop that completes without raising adds one to
\* fetch_count and sets last_fetch_time to the time of that step; one whose
\* search returned no record does so without touching the collection; and no
\* step decreases fetch_count or error_count.
C6_CompletedCycleCounts ==
    [][/\ \A t \in TaskIds :
             /\ LoopCycleCompletes(t) =>
                   /\ fetch_count' = fetch_count + 1
                   /\ last_fetch_time' = now'
                   /\ error_count' = error_count
             /\ EmptyCycle(t) =>
                   /\ fetch_count' = fetch_count + 1
                   /\ collection' = collection
       /\ fetch_count' >= fetch_count
       /\ error_count' >= error_count]_vars

\* a cycle of the loop whose search returned no record has just been counted
C6_Witness ==
    /\ search_log.by \in TaskIds
    /\ search_log.result = "ok"
    /\ coro[search_log.by].pc = "sleep"
    /\ fetch_count = 1
    /\ last_fetch_time = now
    /\ collection = <<>>

\* ----------------------------------------------------------- the key pool
KeySet == {api_keys[i] : i \in 1..Len(api_keys)}

\* the provider requests a search made
Attempts(l) == {i \in DOMAIN l.calls : l.calls[i].answer # "none"}

\* the keys of pool p that are exhausted at time t and whose reset time has
\* not come, and the others
StillExhausted(p, t) ==
    {k \in p.quota_exhausted :
        ~(k \in DOMAIN p.quota_reset_time /\ p.quota_reset_time[k] <= t)}
Usable(p, t) == KeySet \ StillExhausted(p, t)

\* the keys in rotation order, starting at the cursor of pool p
Rotation(p) ==
    [i \in 1..Len(api_keys) |->
        api_keys[((p.current_key_index + i - 1) % Len(api_keys)) + 1]]

\* the first key of S in rotation order
FirstInRotation(p, S) ==
    LET I == {i \in 1..Len(api_keys) : Rotation(p)[i] \in S}
    IN Rotation(p)[CHOOSE i \in I : \A j \in I : i <= j]

\* C7: when the provider rejects the first key of a search for quota and
\* another key is not exhausted, the search goes on with the next key in
\* rotation order that is not exhausted; if the provider accepts that one the
\* search succeeds after these two requests (a cycle of the loop is then a
\* successful one), and the rejected key is in quota_exhausted and has a
\* reset time.
C7_QuotaRotation ==
    LET calls == search_log.calls IN
    (/\ calls # <<>>
     /\ calls[1].answer = "quota"
     /\ Usable(calls[1].before, now) \ {calls[1].key} # {}) =>
        /\ Len(calls) >= 2
        /\ calls[2].key =
              FirstInRotation(calls[1].after,
                              Usable(calls[1].before, now) \ {calls[1].key})
        /\ calls[2].answer = "ok" =>
              /\ search_log.result = "ok"
              /\ Len(calls) = 2
              /\ search_log.by \in TaskIds => coro[search_log.by].pc = "sleep"
        /\ calls[1].key \in quota_exhausted
        /\ calls[1].key \in DOMAIN quota_reset_time

\* a cycle of the loop has just succeeded with the second key it tried
C7_Witness ==
    /\ search_log.by \in TaskIds
    /\ Len(search_log.calls) = 2
    /\ search_log.calls[1].answer = "quota"
    /\ search_log.calls[2].answer = "ok"
    /\ search_log.result = "ok"
    /\ search_log.calls[1].key \in quota_exhausted
    /\ fetch_count = 1

\* C8, as claimed: one search makes at most two provider requests.
C8_AtMostTwoAttempts ==
    Cardinality(Attempts(search_log)) <= 2

\* C8, amended: one search makes at most as many provider requests as the
\* pool has keys, each with another key.
C8_AttemptsWithinPool ==
    /\ Cardinality(Attempts(search_log)) <= Cardinality(KeySet)
    /\ \A i, j \in Attempts(search_log) :
          i # j => search_log.calls[i].key # search_log.calls[j].key

\* a search has just made three provider requests
C8_Witness ==
    /\ Cardinality(Attempts(search_log)) = 3
    /\ search_log.calls[3].answer = "quota"
    /\ search_log.result = "nokey"

\* what the caller of a failed cycle of worker w does in this step
CountedAsOneError(w) ==
    IF w \in TaskIds
    THEN /\ error_count' = error_count + 1
         /\ fetch_count' = fetch_count
         /\ last_fetch_time' = last_fetch_time
         /\ coro'[w].pc = "backoff"
         /\ is_running'
    ELSE /\ ~force_result'.success
         /\ UNCHANGED <<error_count, fetch_count, last_fetch_time>>

\* C9: a search that finds every key exhausted makes no provider request and
\* fails; a search whose only key that is not exhausted is rejected for
\* quota fails after that one request; the loop counts either as one error,
\* leaves fetch_count alone and goes into its backoff sleep.
C9_NoUsableKeyFails ==
    [][search_log'.calls # <<>> =>
          LET first == search_log'.calls[1] IN
          /\ Usable(first.before, now) = {} =>
                /\ search_log'.result = "nokey"
                /\ Attempts(search_log') = {}
                /\ CountedAsOneError(search_log'.by)
          /\ (Usable(first.before, now) = {first.key}
                /\ first.answer = "quota") =>
                /\ search_log'.result = "nokey"
                /\ Attempts(search_log') = {1}
                /\ CountedAsOneError(search_log'.by)]_vars

\* a cycle of the loop has just failed without a provider request, every key
\* being exhausted
C9_Witness ==
    /\ search_log.by \in TaskIds
    /\ search_log.calls # <<>>
    /\ search_log.result = "nokey"
    /\ Attempts(search_log) = {}
    /\ error_count >= 1
    /\ Cardinality(KeySet) >= 2
    /\ coro[search_log.by].pc = "backoff"

\* the keys of pool p whose reset time has come at time t
Due(p, t) ==
    {k \in DOMAIN p.quota_reset_time : p.quota_reset_time[k] <= t}

SameState(k, p, q) ==
    /\ k \in p.quota_exhausted <=> k \in q.quota_exhausted
    /\ k \in DOMAIN p.quota_reset_time <=> k \in DOMAIN q.quota_reset_time
    /\ k \in DOMAIN p.quota_reset_time =>
          p.quota_reset_time[k] = q.quota_reset_time[k]

\* C10: a call of _get_next_available_key that finds every key exhausted
\* returns None when no reset time has come; when the reset time of exactly
\* one key has come it returns that key, which has left quota_exhausted and
\* quota_reset_time, and every other key is as it was.  The reset time of a
\* key is the time it was marked at plus 24 hours.
C10_ResetAfterCooldown ==
    /\ \A i \in DOMAIN search_log.calls :
          LET c == search_log.calls[i] IN
          (c.before.quota_exhausted = KeySet) =>
              /\ Due(c.before, now) = {} => c.key = NoKey
              /\ \A k \in KeySet :
                    Due(c.before, now) = {k} =>
                        /\ c.key = k
                        /\ k \notin c.after.quota_exhausted
                        /\ k \notin DOMAIN c.after.quota_reset_time
                        /\ \A j \in KeySet \ {k} :
                              SameState(j, c.before, c.after)
    /\ \A i \in DOMAIN search_log.calls :
          (search_log.calls[i].answer = "quota"
              /\ i + 1 \in DOMAIN search_log.calls) =>
              LET k == search_log.calls[i].key
                  p == search_log.calls[i + 1].before
              IN /\ k \in p.quota_exhausted
                 /\ k \in DOMAIN p.quota_reset_time
                 /\ p.quota_reset_time[k] = now + Cooldown

\* every key was exhausted, the reset time of one of several has come and
\* _get_next_available_key has returned it
C10_Witness ==
    /\ search_log.calls # <<>>
    /\ search_log.calls[1].before.quota_exhausted = KeySet
    /\ Cardinality(KeySet) >= 2
    /\ Cardinality(Due(search_log.calls[1].before, now)) = 1
    /\ search_log.calls[1].key \in Due(search_log.calls[1].before, now)

\* the keys that n calls of _get_next_available_key made one after the other
\* at time t return, from pool p on
RECURSIVE Successive(_, _, _)
Successive(p, t, n) ==
    IF n = 0 THEN <<>>
    ELSE LET r == get_next_available_key(p, t)
         IN <<r.key>> \o Successive(r.pool, t, n - 1)

\* C11: when no key is exhausted, as many successive calls of
\* _get_next_available_key as there are keys return every key once, in
\* rotation order from the cursor on.
C11_RoundRobin ==
    quota_exhausted = {} =>
        Successive(Pool, now, Len(api_keys)) = Rotation(Pool)

\* C12: a call of _get_next_available_key releases exactly the exhausted keys
\* whose reset time is at or before now, with their reset times; it returns
\* the first key in rotation order from the cursor that is then not
\* exhausted and sets the cursor to the index of that key; it returns None,
\* and leaves the cursor, exactly when every key is still exhausted; the key
\* it returns is not exhausted and the cursor is within 0..N-1.
C12_NextAvailableContract ==
    \A i \in DOMAIN search_log.calls :
        LET c == search_log.calls[i]
            free == KeySet \ c.after.quota_exhausted
        IN /\ c.after.quota_exhausted =
                  c.before.quota_exhausted \ Due(c.before, now)
           /\ DOMAIN c.after.quota_reset_time =
                  DOMAIN c.before.quota_reset_time \ Due(c.before, now)
           /\ \A k \in DOMAIN c.after.quota_reset_time :
                  c.after.quota_reset_time[k] = c.before.quota_reset_time[k]
           /\ c.after.current_key_index \in 0..(Len(api_keys) - 1)
           /\ (c.key = NoKey) <=> (free = {})
           /\ free = {} =>
                  c.after.current_key_index = c.before.current_key_index
           /\ free # {} =>
                  /\ c.key \in free
                  /\ c.key = FirstInRotation(c.before, free)
                  /\ api_keys[c.after.current_key_index + 1] = c.key

\* a call released a key, skipped one that is still exhausted and wrapped
\* around to a key before the cursor
C12_Witness ==
    /\ search_log.calls # <<>>
    /\ LET c == search_log.calls[1]
       IN /\ Due(c.before, now) # {}
          /\ c.key # NoKey
          /\ c.after.quota_exhausted # {}
          /\ c.after.current_key_index < c.before.current_key_index

\* C13: a call of _mark_key_exhausted with a key that is already exhausted
\* leaves quota_exhausted as it is, sets the reset time of that key to now
\* plus 24 hours and changes neither another key nor the cursor.
C13_MarkIdempotent ==
    (pool_log.op = "mark" /\ pool_log.key \in pool_log.before.quota_exhausted)
        => /\ pool_log.after.quota_exhausted = pool_log.before.quota_exhausted
           /\ Cardinality(pool_log.after.quota_exhausted) =
                  Cardinality(pool_log.before.quota_exhausted)
           /\ pool_log.key \in DOMAIN pool_log.after.quota_reset_time
           /\ pool_log.after.quota_reset_time[pool_log.key] = now + Cooldown
           /\ \A j \in KeySet \ {pool_log.key} :
                  SameState(j, pool_log.before, pool_log.after)
           /\ pool_log.after.current_key_index =
                  pool_log.before.current_key_index

\* a key that was exhausted, as another is, was marked again at a later time
C13_Witness ==
    /\ pool_log.op = "mark"
    /\ pool_log.key \in pool_log.before.quota_exhausted
    /\ Cardinality(pool_log.before.quota_exhausted) >= 2
    /\ pool_log.before.quota_reset_time[pool_log.key] < now + Cooldown
    /\ pool_log.after.current_key_index > 0

\* C14: in every state the exhausted keys are the keys that have a reset
\* time, and get_quota_status reports a key as exhausted exactly when it
\* reports a reset time for it.
C14_ExhaustedIffResetTime ==
    /\ quota_exhausted = DOMAIN quota_reset_time
    /\ \A i \in 1..Len(api_keys) :
          LET e == get_quota_status(Pool).keys_status[i]
          IN e.is_exhausted <=> (e.reset_time # NoTime)

\* a search has just released a key while another key stays exhausted
C14_Witness ==
    /\ search_log.calls # <<>>
    /\ Due(search_log.calls[1].before, now) # {}
    /\ quota_exhausted # {}
    /\ \E i \in 1..Len(api_keys) :
          /\ get_quota_status(Pool).keys_status[i].is_exhausted
          /\ get_quota_status(Pool).keys_status[i].reset_time > now

\* ------------------------------------------------------------ force_fetch
\* C15: a call of force_fetch, whether the poller is running or not, makes
\* one search, at its start; a search that raises (the provider's error, or
\* no key left) makes it return success false with the error in the message;
\* a cycle that does not raise makes it return success true; until it
\* returns it is at a storage call of its cycle; and none of its steps
\* changes is_running or task.
C15_ForceFetchAlwaysReturns ==
    [][call_log'.op = "force" =>
          /\ is_running' = is_running
          /\ task' = task
          /\ (coro[ForceId].pc = "idle") <=>
                (search_log'.by = ForceId /\ search_log'.calls # <<>>)
          /\ search_log'.result \in {"nokey", "error"} =>
                /\ call_log'.returned
                /\ force_result'.success = FALSE
                /\ force_result'.message =
                      "Manual fetch failed: " \o ErrorText(search_log'.result)
          /\ (call_log'.returned
                /\ search_log'.result \notin {"nokey", "error"}) =>
                force_result'.success = TRUE
          /\ call_log'.returned <=> coro'[ForceId].pc = "idle"
          /\ ~call_log'.returned =>
                coro'[ForceId].pc \in {"lookup", "write"}]_vars

\* force_fetch, called while the loop runs, has just returned a failure: no
\* key was left
C15_Witness ==
    /\ call_log.op = "force"
    /\ call_log.returned
    /\ force_result.success = FALSE
    /\ search_log.result = "nokey"
    /\ is_running
    /\ Alive # {}

\* C16: the record force_fetch returns has the fields success, message,
\* duration and timestamp, and duration is not negative, whether the cycle
\* raised or not.
C16_ResultHasFourFields ==
    (call_log.op = "force" /\ call_log.returned) =>
        /\ DOMAIN force_result =
              {"success", "message", "duration", "timestamp"}
        /\ force_result.duration >= 0

\* -------------------------------------------------------------- the store
\* the records of batch b whose video_id is stored in collection c
Known(b, c) ==
    {i \in 1..Len(b) : \E j \in 1..Len(c) : c[j].video_id = b[i]}

\* C17: a cycle that ran alone, whose search returned N videos of which M
\* were stored, and none of whose storage calls failed, has made M updates
\* and N - M creates, and the collection has N - M documents more.
C17_UpdatesAndCreates ==
    (cycle_log.videos # <<>> /\ cycle_log.errors = 0) =>
        LET N == Len(cycle_log.videos)
            M == Cardinality(Known(cycle_log.videos, cycle_log.base))
        IN /\ cycle_log.updated_count = M
           /\ cycle_log.stored_count = N - M
           /\ Len(collection) = Len(cycle_log.base) + N - M

\* a cycle has just updated one video and created the other
C17_Witness ==
    /\ Len(cycle_log.videos) = 2
    /\ cycle_log.errors = 0
    /\ cycle_log.updated_count = 1
    /\ cycle_log.stored_count = 1
    /\ Len(collection) = 2

\* C18: a video that is not stored is created, with created_at and
\* updated_at set to the time of the call; a video that is stored is
\* updated: its document keeps its created_at and gets the time of the call
\* as updated_at; no step alters the video_id or the created_at of a
\* document, sets its updated_at back or removes it; and no two documents
\* have the same video_id.
C18_ReconcileTwice ==
    [][LET c == coro[ForceId] IN
       /\ \A i \in 1..Len(collection) :
             /\ i \in 1..Len(collection')
             /\ collection'[i].video_id = collection[i].video_id
             /\ collection'[i].created_at = collection[i].created_at
             /\ collection'[i].updated_at >= collection[i].updated_at
       /\ \A i, j \in 1..Len(collection') :
             collection'[i].video_id = collection'[j].video_id => i = j
       /\ (c.pc = "lookup" /\ coro'[ForceId].pc = "write") =>
             /\ coro'[ForceId].op =
                   IF Stored(c.videos[c.pos]) # {} THEN "update" ELSE "create"
             /\ coro'[ForceId].stamp = now
       /\ (c.pc = "write" /\ collection' # collection /\ c.op = "create") =>
             collection' =
                 Append(collection, [video_id |-> c.videos[c.pos],
                                     created_at |-> c.stamp,
                                     updated_at |-> c.stamp])
       /\ (c.pc = "write" /\ collection' # collection /\ c.op = "update") =>
             /\ Len(collection') = Len(collection)
             /\ \A i \in 1..Len(collection) :
                   collection'[i].updated_at =
                       IF collection[i].video_id = c.videos[c.pos]
                       THEN c.stamp ELSE collection[i].updated_at]_vars

\* the only video stored was created at one time and updated at a later one
C18_Witness ==
    /\ Len(collection) = 1
    /\ collection[1].created_at < collection[1].updated_at
    /\ cycle_log.videos = <<collection[1].video_id>>
    /\ cycle_log.updated_count = 1
    /\ cycle_log.stored_count = 0

\* the step is a storage call of worker w that raises
RecordFails(w) ==
    /\ coro[w].pc \in {"lookup", "write"}
    /\ \/ coro'[w].errors = coro[w].errors + 1
       \/ /\ cycle_log'.by = w
          /\ cycle_log'.videos # <<>>
          /\ cycle_log'.errors = coro[w].errors + 1

\* C19: when the lookup, the update or the create of a record raises, the
\* cycle goes on with the next record of the batch and no counter changes;
\* after the last record the cycle ends as one that did not fail (the loop
\* adds one to fetch_count, not to error_count, and sleeps for the interval;
\* force_fetch returns success true); and a cycle that ends has stored,
\* updated or skipped every record of its batch.
C19_RecordFailureSkipped ==
    [][/\ \A w \in WorkerIds :
             RecordFails(w) =>
                 IF coro[w].pos < Len(coro[w].videos)
                 THEN /\ coro'[w].pc = "lookup"
                      /\ coro'[w].pos = coro[w].pos + 1
                      /\ coro'[w].videos = coro[w].videos
                      /\ UNCHANGED <<fetch_count, error_count>>
                 ELSE /\ error_count' = error_count
                      /\ w \in TaskIds =>
                            /\ fetch_count' = fetch_count + 1
                            /\ coro'[w].pc = "sleep"
                      /\ w = ForceId =>
                            /\ call_log'.returned
                            /\ force_result'.success = TRUE
       /\ cycle_log'.videos # <<>> =>
             cycle_log'.stored_count + cycle_log'.updated_count
                 + cycle_log'.errors = Len(cycle_log'.videos)]_vars

\* a cycle of the loop has just been counted whose first record was skipped
\* and whose second was created
C19_Witness ==
    /\ cycle_log.by \in TaskIds
    /\ Len(cycle_log.videos) = 2
    /\ cycle_log.errors = 1
    /\ cycle_log.stored_count = 1
    /\ Len(collection) = 1
    /\ collection[1].video_id = cycle_log.videos[2]
    /\ fetch_count >= 1
    /\ error_count = 0

\* ------------------------------------------------------- the quota status
\* the entries of a status whose is_exhausted is b
Entries(st, b) ==
    {i \in DOMAIN st.keys_status : st.keys_status[i].is_exhausted = b}

\* C20: in every status of get_quota_status, whatever the list of keys,
\* exhausted_keys is the number of entries with is_exhausted true,
\* available_keys is the number with is_exhausted false and the two add up
\* to total_keys.
C20_StatusCountsAgree ==
    LET st == get_quota_status(Pool)
    IN /\ st.exhausted_keys = Cardinality(Entries(st, TRUE))
       /\ st.available_keys = Cardinality(Entries(st, FALSE))
       /\ st.available_keys + st.exhausted_keys = st.total_keys

\* C21: for every key, the key_suffix of get_quota_status is a trailing part
\* of the key that is shorter than the key, whatever the length of the key.
C21_SuffixShorterThanKey ==
    \A i \in 1..Len(api_keys) :
        LET key == api_keys[i]
            suffix == get_quota_status(Pool).keys_status[i].key_suffix
        IN /\ Len(suffix) < Len(key)
           /\ suffix = SubSeq(key, Len(key) - Len(suffix) + 1, Len(key))
           /\ suffix # key

\* ------------------------------------------------------------ cancellation
\* C22: a loop task that is cancelled while it waits for a storage call of
\* its cycle ends with its next step: no further record of the batch is
\* reconciled (the collection changes by the write in flight at most),
\* fetch_count, error_count and last_fetch_time stay, the exhausted keys are
\* the keys with a reset time, no search is made; and a task that has ended
\* never runs again.
C22_CancelledInCycle ==
    [][\A t \in TaskIds :
          /\ (coro[t].cancel /\ coro[t].pc \in {"lookup", "write"}
                /\ coro'[t] # coro[t]) =>
                /\ coro'[t].pc = "done"
                /\ UNCHANGED <<fetch_count, error_count, last_fetch_time>>
                /\ collection' \in {collection, Written(coro[t])}
                /\ quota_exhausted' = DOMAIN quota_reset_time'
                /\ search_log'.calls = <<>>
          /\ coro[t].pc = "done" => coro'[t].pc = "done"]_vars

\* the only loop task was cancelled in its first cycle, after the first of
\* two records was stored
C22_Witness ==
    /\ Spawned = {1}
    /\ coro[1].pc = "done"
    /\ coro[1].exit = "returned"
    /\ fetch_count = 0
    /\ error_count = 0
    /\ Len(collection) = 1
    /\ collection[1].video_id = "v2"
    /\ stops # {}

\* C23: a call of stop_background_fetching that waits for the loop task
\* returns, and the task is done then; a task that is cancelled in its
\* interval sleep or in its backoff sleep ends with its next step, without
\* another cycle; and the call that waited returns normally, however the
\* task ended.
C23_StopTerminates ==
    /\ \A s \in [waits : TaskIds, before : SUBSET TaskIds] :
          (s \in stops) ~> (s \notin stops /\ coro[s.waits].pc = "done")
    /\ [][\A t \in TaskIds :
             (coro[t].cancel /\ coro[t].pc \in {"sleep", "backoff"}
                 /\ coro'[t] # coro[t]) =>
                 /\ coro'[t].pc = "done"
                 /\ search_log'.calls = <<>>]_vars
    /\ [][\A s \in stops :
             s \notin stops' =>
                 /\ call_log' = Returned(s.before)
                 /\ coro[s.waits].pc = "done"]_vars

\* a call of stop has returned that waited for a loop task cancelled in its
\* backoff sleep
C23_Witness ==
    /\ call_log.op = "stop"
    /\ call_log.returned
    /\ ~is_running
    /\ task # NoTask
    /\ coro[task].pc = "done"
    /\ coro[task].exit = "cancelled"
    /\ error_count = 1
    /\ fetch_count = 0
    /\ stops = {}

\* ------------------------------------------------------------- the sleeps
\* C24: after a cycle that did not raise the loop sleeps fetch_interval
\* seconds, after one that raised it sleeps the smaller of twice
\* fetch_interval and 60 seconds; the next cycle starts when that sleep is
\* over.
C24_SleepDurations ==
    [][\A t \in TaskIds :
          /\ LoopCycleCompletes(t) => coro'[t].sleep = fetch_interval
          /\ LoopCycleFails(t) =>
                coro'[t].sleep =
                    IF 2 * fetch_interval <= 60 THEN 2 * fetch_interval
                    ELSE 60
          /\ (search_log'.by = t /\ search_log'.calls # <<>>) =>
                coro[t].pc \in {"new", "sleep", "backoff"}]_vars

\* the loop sleeps 60 seconds after a failed cycle, the interval being 45
C24_Witness ==
    /\ fetch_interval = 45
    /\ \E t \in TaskIds : coro[t].pc = "backoff" /\ coro[t].sleep = 60
    /\ error_count = 1

\* C25: for every interval the sleep after a failed cycle is
\* longer than the sleep after a cycle that did not fail.
C25_BackoffLonger ==
    [][\A t \in TaskIds :
          LoopCycleFails(t) => coro'[t].sleep > fetch_interval]_vars

\* ------------------------------------------------- the errors of a search
\* C26: when the provider answers a request of a search with an error that
\* is not a quota rejection, that request is the last of the search, the
\* pool is left as _get_next_available_key left it before the request (no
\* key becomes exhausted or gets a reset time), the search raises, and the
\* loop counts one error, force_fetch returns success false.
C26_ErrorNotRetried ==
    [][\A i \in DOMAIN search_log'.calls :
          search_log'.calls[i].answer = "error" =>
              /\ i = Len(search_log'.calls)
              /\ search_log'.result = "error"
              /\ quota_exhausted' = search_log'.calls[i].after.quota_exhausted
              /\ quota_reset_time' =
                    search_log'.calls[i].after.quota_reset_time
              /\ current_key_index' =
                    search_log'.calls[i].after.current_key_index
              /\ search_log'.calls[i].key \notin quota_exhausted'
              /\ CountedAsOneError(search_log'.by)]_vars

\* a cycle of the loop has just failed with the provider's error, at its
\* first request
C26_Witness ==
    /\ search_log.by \in TaskIds
    /\ Len(search_log.calls) = 1
    /\ search_log.calls[1].answer = "error"
    /\ search_log.result = "error"
    /\ quota_exhausted = {}
    /\ error_count = 1
    /\ Len(api_keys) >= 2

\* C27: a search makes at most as many requests as there are keys; a key
\* that was rejected for quota is exhausted when the next key is chosen and
\* is not chosen again in that search; the search raises without a request
\* when no key is left; and a search all of whose requests are rejected
\* ends, with that error.
C27_SearchTerminates ==
    LET calls == search_log.calls IN
    /\ Cardinality(Attempts(search_log)) <= Len(api_keys)
    /\ \A i \in DOMAIN calls :
          calls[i].answer = "quota" =>
              /\ i + 1 \in DOMAIN calls
              /\ calls[i].key \in calls[i + 1].before.quota_exhausted
              /\ \A j \in DOMAIN calls : j > i => calls[j].key # calls[i].key
    /\ \A i \in DOMAIN calls :
          calls[i].key = NoKey =>
              /\ i = Len(calls)
              /\ calls[i].answer = "none"
              /\ search_log.result = "nokey"
    /\ LET all == search_videos(Pool, now, Rejections(Len(api_keys) + 1))
       IN /\ all.result = "nokey"
          /\ Len(all.calls) <= Len(api_keys) + 1

\* a search of the loop has just ended after a rejected request for each of
\* the two keys
C27_Witness ==
    /\ search_log.by \in TaskIds
    /\ Len(api_keys) = 2
    /\ Attempts(search_log) = {1, 2}
    /\ search_log.calls[1].key # search_log.calls[2].key
    /\ search_log.result = "nokey"
    /\ Len(search_log.calls) = 3

\* ------------------------------------------------------ concurrent cycles
\* C28: no two documents of the collection have the same video_id, however
\* the cycles of the loop and of force_fetch interleave.
C28_OneRecordPerKey ==
    \A i, j \in 1..Len(collection) :
        collection[i].video_id = collection[j].video_id => i = j

\* C29: at any time at most one loop task has not terminated, and at most
\* one loop task is inside a cycle.
C29_AtMostOneLoopTask ==
    /\ Cardinality(Alive) <= 1
    /\ Cardinality(InCycle) <= 1

\* C30: no step of force_fetch changes fetch_count, error_count or
\* last_fetch_time, whether its cycle raises or not; a step that changes one
\* of them is a step of a loop task.
C30_ForceFetchLeavesCounters ==
    [][/\ call_log'.op = "force" =>
             UNCHANGED <<fetch_count, error_count, last_fetch_time>>
       /\ <<fetch_count, error_count, last_fetch_time>>' #
              <<fetch_count, error_count, last_fetch_time>> =>
             /\ call_log' = NoCall
             /\ coro'[ForceId] = coro[ForceId]
             /\ \E t \in Alive :
                   \/ coro[t].pc \in {"lookup", "write"}
                   \/ search_log'.by = t /\ search_log'.calls # <<>>]_vars

\* force_fetch has just returned a failure while the loop has counted one
\* cycle of its own and no error
C30_Witness ==
    /\ call_log.op = "force"
    /\ call_log.returned
    /\ force_result.success = FALSE
    /\ quota_exhausted # {}
    /\ fetch_count = 1
    /\ error_count = 0

====
